---- MODULE Spec2Model ----
(***************************************************************************)
(* Model of .github/shared.py: get_project_root, read_workflow and the     *)
(* generator get_test_selections, together with the environment they read  *)
(* (PROJECT_ROOT, the working directory, the file system).                 *)
(*                                                                         *)
(* OS strings are sequences of tokens in which "/" is the separator, so    *)
(* "/repo/.github" is <<"/", "repo", "/", ".github">> and "" is <<>>.      *)
(* A pathlib path is [abs, parts].  A YAML value is [t, items, v] with     *)
(* t in {"map", "seq", "str", "null"}.                                     *)
(***************************************************************************)
EXTENDS Integers, Sequences, FiniteSets, TLC

VARIABLES env, cwd, fs, gens, running, extWrites, invocations

vars == <<env, cwd, fs, gens, running, extWrites, invocations>>

(* ------------------------------ bounds -------------------------------- *)

MaxLen == 4

MaxGens == 2

MaxWrites == 1

(* ------------------------ module-level constants ----------------------- *)

REMAINDER == "REMAINDER"

\* abspath(dirname(__file__)): always absolute, independent of PROJECT_ROOT
GITHUB_DIR == <<"/", "repo", "/", ".github">>

WORKFLOW_PATH == GITHUB_DIR \o <<"/", "workflows", "/", "continuous-integration.yml">>

KeyPath == <<"jobs", "scala_unit_tests", "strategy", "matrix", "tests">>

(* ------------------------------ pathlib -------------------------------- *)

IsSep(tok) == tok = "/"

NotSep(tok) == ~IsSep(tok)

\* Path(s): Path('') is the relative path '.', i.e. no parts
Path(s) == [abs |-> Len(s) > 0 /\ IsSep(s[1]), parts |-> SelectSeq(s, NotSep)]

\* a / b: an absolute right operand discards the left operand
PathJoin(a, b) == IF b.abs THEN b ELSE [abs |-> a.abs, parts |-> a.parts \o b.parts]

\* the file a path names when it is opened: relative paths start at cwd
Resolve(p, dir) == IF p.abs THEN p ELSE [abs |-> TRUE, parts |-> Path(dir).parts \o p.parts]

(* --------------------------- os environment ---------------------------- *)

\* os.getenv(name, default)
getenv(e, default) == IF e.set THEN e.val ELSE default

\* variant: os.getenv('PROJECT_ROOT') or os.getcwd()
get_project_root_or(e, dir) == IF e.set /\ e.val # <<>> THEN Path(e.val) ELSE Path(dir)

get_project_root(e, dir) == Path(getenv(e, dir))

(* ------------------------------- YAML ---------------------------------- *)

Null == [t |-> "null", items |-> <<>>, v |-> <<>>]

Leaf(kind, items) ==
    CASE kind = "seq" -> [t |-> "seq", items |-> items, v |-> <<>>]
      [] kind = "str" -> [t |-> "str", items |-> items, v |-> <<>>]
      [] kind = "map" -> [t |-> "map", items |-> items,
                          v |-> [k \in {items[i] : i \in 1..Len(items)} |-> Null]]
      [] OTHER        -> Null

RECURSIVE Nest(_, _)
Nest(d, val) ==
    IF d = 0 THEN val
    ELSE Nest(d - 1, [t |-> "map", items |-> <<KeyPath[d]>>, v |-> (KeyPath[d] :> val)])

\* yaml.safe_load on the text of a file
safe_load(text) ==
    IF text.valid
    THEN [ok |-> TRUE, err |-> "", val |-> Nest(text.depth, Leaf(text.kind, text.items))]
    ELSE [ok |-> FALSE, err |-> "YAMLError", val |-> Null]

\* val[key]
Subscript(val, key) ==
    IF val.t = "map"
    THEN IF key \in DOMAIN val.v
         THEN [ok |-> TRUE, err |-> "", val |-> val.v[key]]
         ELSE [ok |-> FALSE, err |-> "KeyError", val |-> Null]
    ELSE [ok |-> FALSE, err |-> "TypeError", val |-> Null]

\* workflow['jobs']['scala_unit_tests']['strategy']['matrix']['tests']
RECURSIVE Navigate(_, _)
Navigate(val, k) ==
    IF k > Len(KeyPath) THEN [ok |-> TRUE, err |-> "", val |-> val]
    ELSE LET r == Subscript(val, KeyPath[k])
         IN  IF r.ok THEN Navigate(r.val, k + 1) ELSE r

\* iter(selections): list elements, characters of a str, keys of a dict
Iterable(val) == val.t \in {"seq", "str", "map"}

(* --------------------------- generator body ---------------------------- *)

\* variant: the comparison is negated
IsRemainderInverted(test_sel) == test_sel # REMAINDER

\* variant: the comparison uses a literal in the wrong case
IsRemainderWrongCase(test_sel) == test_sel = "remainder"

\* line 34
IsRemainder(test_sel) == test_sel = REMAINDER

\* variant: the flag test is not negated
FirstRemainderInverted(remainder_found) == remainder_found

\* variant: the flag is never consulted
FirstRemainderAlways(remainder_found) == TRUE

\* line 35
FirstRemainder(remainder_found) == ~remainder_found

\* line 39
Yielded(test_sel) == test_sel

\* variant: the file is opened without a with block and never closed
WithExitLeak(fopen) == fopen

\* leaving the with block of read_workflow closes the file
WithExit(fopen) == FALSE

(* ------------------------------ inputs --------------------------------- *)

Names == {"a", "b", REMAINDER}

RECURSIVE SeqsUpTo(_, _)
SeqsUpTo(S, n) ==
    IF n = 0 THEN {<<>>}
    ELSE LET shorter == SeqsUpTo(S, n - 1)
         IN  shorter \cup {Append(s, x) : s \in {q \in shorter : Len(q) = n - 1}, x \in S}

Text(exists, valid, depth, kind, items) ==
    [exists |-> exists, valid |-> valid, depth |-> depth, kind |-> kind, items |-> items]

Missing == Text(FALSE, FALSE, 0, "null", <<>>)

Garbled == Text(TRUE, FALSE, 0, "null", <<>>)

ListTexts(n) == {Text(TRUE, TRUE, Len(KeyPath), "seq", l) : l \in SeqsUpTo(Names, n)}

OddTexts ==
    {Text(TRUE, TRUE, d, k, <<>>) : d \in 0..(Len(KeyPath) - 1), k \in {"map", "null", "str", "seq"}}
    \cup {Text(TRUE, TRUE, Len(KeyPath), "null", <<>>),
          Text(TRUE, TRUE, Len(KeyPath), "str", <<"a", "b">>),
          Text(TRUE, TRUE, Len(KeyPath), "map", <<"a", "b">>)}

Texts == {Missing, Garbled} \cup ListTexts(MaxLen) \cup OddTexts

EnvValues ==
    {[set |-> FALSE, val |-> <<>>],
     [set |-> TRUE,  val |-> <<>>],
     [set |-> TRUE,  val |-> <<"/", "repo">>],
     [set |-> TRUE,  val |-> <<"/", "other">>]}

ModuleFile == Path(WORKFLOW_PATH)

RelWorkflow == [abs |-> FALSE, parts |-> <<".github", "workflows", "continuous-integration.yml">>]

Files == {ModuleFile} \cup {Resolve(PathJoin(get_project_root(e, <<"/", "cwd">>), RelWorkflow), <<"/", "cwd">>) : e \in EnvValues}

GenIds == 1..MaxGens

NoPath == [abs |-> FALSE, parts |-> <<>>]

NewGen ==
    [pc |-> "none", project_root |-> NoPath, workflow_path |-> NoPath,
     workflow |-> Null, selections |-> Null, idx |-> 0, remainder_found |-> FALSE,
     fopen |-> FALSE, pending |-> "", out |-> <<>>, err |-> "",
     lookups |-> 0, opens |-> 0, reads |-> 0, pulls |-> 0, text |-> Missing]

(* ------------------------------- state --------------------------------- *)

\* the file system in which the file next to the module has the text t
FilesWith(t) ==
    [p \in Files |-> IF p = ModuleFile THEN t
                     ELSE Text(TRUE, TRUE, Len(KeyPath), "seq", <<"b">>)]

\* one invocation, over every environment and every text of the file
Init ==
    /\ env \in EnvValues
    /\ cwd = <<"/", "cwd">>
    /\ \E t \in Texts : fs = FilesWith(t)
    /\ gens = [g \in GenIds |-> NewGen]
    /\ running = 0
    /\ extWrites = 0
    /\ invocations = 1

MultiTexts ==
    {Missing, Text(TRUE, TRUE, Len(KeyPath), "seq", <<REMAINDER, "a", REMAINDER>>)}
    \cup ListTexts(2)

\* several invocations, live at the same time, over a few texts
InitMulti ==
    /\ env = [set |-> FALSE, val |-> <<>>]
    /\ cwd = <<"/", "cwd">>
    /\ \E t \in MultiTexts : fs = FilesWith(t)
    /\ gens = [g \in GenIds |-> NewGen]
    /\ running = 0
    /\ extWrites = 0
    /\ invocations = MaxGens

Set(g, r) == gens' = [gens EXCEPT ![g] = r]

\* variant: an ordinary function that resolves the root before returning
CallEager(g) ==
    /\ running = 0
    /\ g <= invocations
    /\ gens[g].pc = "none"
    /\ \A h \in GenIds : h < g => gens[h].pc # "none"
    /\ Set(g, [gens[g] EXCEPT !.pc = "created",
                              !.project_root = get_project_root(env, cwd),
                              !.lookups = @ + 1])
    /\ UNCHANGED <<env, cwd, fs, running, extWrites, invocations>>

\* get_test_selections(): a generator function only creates the generator
Call(g) ==
    /\ running = 0
    /\ g <= invocations
    /\ gens[g].pc = "none"
    /\ \A h \in GenIds : h < g => gens[h].pc # "none"
    /\ Set(g, [gens[g] EXCEPT !.pc = "created"])
    /\ UNCHANGED <<env, cwd, fs, running, extWrites, invocations>>

\* next(gen)
Pull(g) ==
    /\ running = 0
    /\ gens[g].pc \in {"created", "suspended"}
    /\ Set(g, [gens[g] EXCEPT !.pc = IF gens[g].pc = "created" THEN "root" ELSE "loop",
                              !.pulls = @ + 1])
    /\ running' = g
    /\ UNCHANGED <<env, cwd, fs, extWrites, invocations>>

\* line 25
StepRoot(g) ==
    /\ running = g
    /\ gens[g].pc = "root"
    /\ Set(g, [gens[g] EXCEPT !.pc = "path",
                              !.project_root = get_project_root(env, cwd),
                              !.lookups = @ + 1])
    /\ UNCHANGED <<env, cwd, fs, running, extWrites, invocations>>

\* line 26
StepPath(g) ==
    /\ running = g
    /\ gens[g].pc = "path"
    /\ Set(g, [gens[g] EXCEPT !.pc = "open",
                              !.workflow_path = PathJoin(gens[g].project_root, Path(WORKFLOW_PATH))])
    /\ UNCHANGED <<env, cwd, fs, running, extWrites, invocations>>

\* line 20: open(workflow_path)
StepOpen(g) ==
    /\ running = g
    /\ gens[g].pc = "open"
    /\ LET p == Resolve(gens[g].workflow_path, cwd)
       IN  IF p \in DOMAIN fs /\ fs[p].exists
           THEN /\ Set(g, [gens[g] EXCEPT !.pc = "load", !.fopen = TRUE, !.opens = @ + 1])
                /\ running' = g
           ELSE /\ Set(g, [gens[g] EXCEPT !.pc = "failed", !.err = "FileNotFoundError"])
                /\ running' = 0
    /\ UNCHANGED <<env, cwd, fs, extWrites, invocations>>

\* variant: the parsed workflow is memoised across invocations
StepLoadCached(g) ==
    /\ running = g
    /\ gens[g].pc = "load"
    /\ LET text   == fs[Resolve(gens[g].workflow_path, cwd)]
           r      == safe_load(text)
           cached == {h \in GenIds \ {g} : gens[h].reads = 1 /\ gens[h].text.valid}
       IN  IF cached # {}
           THEN LET h == CHOOSE c \in cached : TRUE
                IN  Set(g, [gens[g] EXCEPT !.pc = "exit", !.text = gens[h].text,
                                           !.workflow = gens[h].workflow, !.pending = ""])
           ELSE Set(g, [gens[g] EXCEPT !.pc = "exit", !.reads = @ + 1, !.text = text,
                                       !.workflow = r.val, !.pending = r.err])
    /\ UNCHANGED <<env, cwd, fs, running, extWrites, invocations>>

\* line 21: yaml.safe_load(f) reads the whole stream and parses it
StepLoad(g) ==
    /\ running = g
    /\ gens[g].pc = "load"
    /\ LET text == fs[Resolve(gens[g].workflow_path, cwd)]
           r    == safe_load(text)
       IN  Set(g, [gens[g] EXCEPT !.pc = "exit", !.reads = @ + 1, !.text = text,
                                  !.workflow = r.val, !.pending = r.err])
    /\ UNCHANGED <<env, cwd, fs, running, extWrites, invocations>>

\* lines 20-21: the with block is left, by return or by exception
StepExit(g) ==
    /\ running = g
    /\ gens[g].pc = "exit"
    /\ IF gens[g].pending = ""
       THEN /\ Set(g, [gens[g] EXCEPT !.pc = "navigate", !.fopen = WithExit(@)])
            /\ running' = g
       ELSE /\ Set(g, [gens[g] EXCEPT !.pc = "failed", !.fopen = WithExit(@),
                                      !.err = gens[g].pending, !.pending = ""])
            /\ running' = 0
    /\ UNCHANGED <<env, cwd, fs, extWrites, invocations>>

\* lines 28-29
StepNavigate(g) ==
    /\ running = g
    /\ gens[g].pc = "navigate"
    /\ LET r == Navigate(gens[g].workflow, 1)
       IN  IF r.ok
           THEN /\ Set(g, [gens[g] EXCEPT !.pc = "iter", !.selections = r.val])
                /\ running' = g
           ELSE /\ Set(g, [gens[g] EXCEPT !.pc = "failed", !.err = r.err])
                /\ running' = 0
    /\ UNCHANGED <<env, cwd, fs, extWrites, invocations>>

\* lines 31-33: the flag is a fresh local; the for statement calls iter()
StepIter(g) ==
    /\ running = g
    /\ gens[g].pc = "iter"
    /\ IF Iterable(gens[g].selections)
       THEN /\ Set(g, [gens[g] EXCEPT !.pc = "loop", !.remainder_found = FALSE, !.idx = 0])
            /\ running' = g
       ELSE /\ Set(g, [gens[g] EXCEPT !.pc = "failed", !.remainder_found = FALSE,
                                      !.err = "TypeError"])
            /\ running' = 0
    /\ UNCHANGED <<env, cwd, fs, extWrites, invocations>>

\* lines 33-39: one iteration of the for loop
StepLoop(g) ==
    /\ running = g
    /\ gens[g].pc = "loop"
    /\ LET items == gens[g].selections.items
           i     == gens[g].idx + 1
       IN  IF i > Len(items)
           THEN /\ Set(g, [gens[g] EXCEPT !.pc = "done"])
                /\ running' = 0
           ELSE IF IsRemainder(items[i])
                THEN IF FirstRemainder(gens[g].remainder_found)
                     THEN /\ Set(g, [gens[g] EXCEPT !.idx = i, !.remainder_found = TRUE])
                          /\ running' = g
                     ELSE /\ Set(g, [gens[g] EXCEPT !.idx = i, !.pc = "failed",
                                                    !.err = "Exception"])
                          /\ running' = 0
                ELSE /\ Set(g, [gens[g] EXCEPT !.idx = i, !.pc = "suspended",
                                               !.out = Append(@, Yielded(items[i]))])
                     /\ running' = 0
    /\ UNCHANGED <<env, cwd, fs, extWrites, invocations>>

\* gen.close(), or the consumer dropping a generator it stopped pulling early
Close(g) ==
    /\ running = 0
    /\ gens[g].pc \in {"created", "suspended"}
    /\ Set(g, [gens[g] EXCEPT !.pc = "closed"])
    /\ UNCHANGED <<env, cwd, fs, running, extWrites, invocations>>

\* the workflow file is edited by someone else, at any moment
WriteTexts ==
    {Text(TRUE, TRUE, Len(KeyPath), "seq", <<REMAINDER>>),
     Text(TRUE, TRUE, Len(KeyPath), "seq", <<"b">>)}

WriteFile ==
    /\ extWrites < MaxWrites
    /\ \E t \in WriteTexts :
          /\ t # fs[ModuleFile]
          /\ fs' = [fs EXCEPT ![ModuleFile] = t]
    /\ extWrites' = extWrites + 1
    /\ UNCHANGED <<env, cwd, gens, running, invocations>>

Next ==
    \/ \E g \in GenIds : Call(g)
    \/ \E g \in GenIds : Pull(g)
    \/ \E g \in GenIds : StepRoot(g)
    \/ \E g \in GenIds : StepPath(g)
    \/ \E g \in GenIds : StepOpen(g)
    \/ \E g \in GenIds : StepLoad(g)
    \/ \E g \in GenIds : StepExit(g)
    \/ \E g \in GenIds : StepNavigate(g)
    \/ \E g \in GenIds : StepIter(g)
    \/ \E g \in GenIds : StepLoop(g)
    \/ \E g \in GenIds : Close(g)
    \/ WriteFile

Spec == Init /\ [][Next]_vars

SpecMulti == InitMulti /\ [][Next]_vars

(* ------------------------- auxiliary definitions ----------------------- *)

RECURSIVE Count(_, _)
Count(s, x) ==
    IF s = <<>> THEN 0 ELSE (IF Head(s) = x THEN 1 ELSE 0) + Count(Tail(s), x)

RemoveAt(s, i) == SubSeq(s, 1, i - 1) \o SubSeq(s, i + 1, Len(s))

InsertAt(s, i, x) == SubSeq(s, 1, i - 1) \o <<x>> \o SubSeq(s, i, Len(s))

IsPrefix(p, s) == Len(p) <= Len(s) /\ SubSeq(s, 1, Len(p)) = p

NotSentinel(x) == x # REMAINDER

\* index of the second occurrence of the sentinel
SecondIndex(s) ==
    CHOOSE k \in 1..Len(s) : s[k] = REMAINDER /\ Count(SubSeq(s, 1, k - 1), REMAINDER) = 1

\* the generator got a YAML list at the key path and entered the loop
Scans(g) == gens[g].selections.t = "seq" /\ gens[g].pc # "iter"

Sentinels(g) == Count(gens[g].selections.items, REMAINDER)

(* ------------------------------- claims -------------------------------- *)

\* C1: a tests list with exactly one "REMAINDER" (at any position) is consumed
\* without error, and the fully consumed generator has produced the list with
\* that one entry removed, the other elements in their original order.
C1_OneSentinelRemoved ==
    \A g \in GenIds :
        (Scans(g) /\ Sentinels(g) = 1) =>
            /\ gens[g].err = ""
            /\ gens[g].pc # "failed"
            /\ gens[g].pc = "done" =>
                  \E i \in 1..Len(gens[g].selections.items) :
                      /\ gens[g].selections.items[i] = REMAINDER
                      /\ gens[g].out = RemoveAt(gens[g].selections.items, i)

C1_Witness ==
    \E g \in GenIds :
        /\ Scans(g) /\ Sentinels(g) = 1 /\ gens[g].pc = "done"
        /\ Len(gens[g].selections.items) = 3
        /\ gens[g].selections.items[2] = REMAINDER
        /\ gens[g].selections.items[1] # gens[g].selections.items[3]

\* C2: a tests list without "REMAINDER" (the empty list included) is consumed
\* without error and the fully consumed generator has produced exactly the
\* list: same elements, same order, same length.
C2_NoSentinelIdentity ==
    \A g \in GenIds :
        (Scans(g) /\ Sentinels(g) = 0) =>
            /\ gens[g].err = ""
            /\ gens[g].pc # "failed"
            /\ IsPrefix(gens[g].out, gens[g].selections.items)
            /\ gens[g].pc = "done" => gens[g].out = gens[g].selections.items

C2_Witness ==
    \E g \in GenIds :
        /\ Scans(g) /\ Sentinels(g) = 0 /\ gens[g].pc = "done"
        /\ gens[g].out = <<"b", "a">>

\* C3: with two or more "REMAINDER" entries the generator fails with the
\* duplicate-sentinel error exactly when the second occurrence is reached; what
\* it emitted before are the non-sentinel elements preceding that occurrence,
\* in order, and nothing at or after it is ever emitted.
C3_DuplicateFailsAtSecond ==
    \A g \in GenIds :
        (Scans(g) /\ Sentinels(g) >= 2) =>
            LET items == gens[g].selections.items
                k     == SecondIndex(items)
            IN  /\ gens[g].idx <= k
                /\ gens[g].out = SelectSeq(SubSeq(items, 1, gens[g].idx), NotSentinel)
                /\ gens[g].pc # "done"
                /\ (gens[g].pc = "failed") <=> (gens[g].idx = k)
                /\ gens[g].pc = "failed" =>
                      /\ gens[g].err = "Exception"
                      /\ gens[g].out = SelectSeq(SubSeq(items, 1, k - 1), NotSentinel)

C3_Witness ==
    \E g \in GenIds :
        /\ Scans(g) /\ Sentinels(g) >= 2
        /\ gens[g].pc = "failed" /\ gens[g].err = "Exception"
        /\ gens[g].selections.items = <<REMAINDER, "a", REMAINDER, "b">>
        /\ gens[g].out = <<"a">>

\* C4 (as claimed): the file that is opened is
\* <project_root>/.github/workflows/continuous-integration.yml for the resolved
\* project root.
C4_FileUnderProjectRoot ==
    \A g \in GenIds :
        gens[g].opens >= 1 =>
            Resolve(gens[g].workflow_path, cwd)
                = Resolve(PathJoin(gens[g].project_root, RelWorkflow), cwd)

\* C5 (as claimed): the project root is PROJECT_ROOT when set and non-empty and
\* the current working directory otherwise (unset or empty).
C5_EmptyFallsBackToCwd ==
    \A g \in GenIds :
        gens[g].lookups >= 1 =>
            gens[g].project_root =
                IF env.set /\ env.val # <<>> THEN Path(env.val) ELSE Path(cwd)

\* C5 (amended): the project root is the path of PROJECT_ROOT whenever the
\* variable is set, the empty string included, which gives the relative path
\* '.' (it names the working directory only once resolved and is not the
\* absolute path of os.getcwd()); it is the working directory when unset.
C5_SetValueWins ==
    \A g \in GenIds :
        gens[g].lookups >= 1 =>
            /\ env.set => gens[g].project_root = Path(env.val)
            /\ ~env.set => gens[g].project_root = Path(cwd)
            /\ (env.set /\ env.val = <<>>) =>
                  /\ gens[g].project_root = [abs |-> FALSE, parts |-> <<>>]
                  /\ gens[g].project_root # Path(cwd)
                  /\ Resolve(gens[g].project_root, cwd) = Path(cwd)

C5_Witness ==
    \E g \in GenIds : gens[g].lookups >= 1 /\ env.set /\ env.val = <<>>

\* the document that was read lacks a segment of the key path, or its tests
\* value is not a sequence
Malformed(text) ==
    text.exists /\ text.valid /\ (text.depth < Len(KeyPath) \/ text.kind # "seq")

\* C6 (as claimed): when a key-path segment is absent or the tests value is
\* not a sequence, the generator fails with a KeyError and emits no value.
C6_MalformedIsKeyError ==
    \A g \in GenIds :
        (gens[g].reads >= 1 /\ Malformed(gens[g].text)) =>
            /\ gens[g].out = <<>>
            /\ gens[g].pc \notin {"suspended", "done"}
            /\ gens[g].pc = "failed" => gens[g].err = "KeyError"

\* C7: for a tests list with exactly one "REMAINDER" at index i, inserting
\* "REMAINDER" at index i into the produced sequence gives back the list.
C7_RoundTrip ==
    \A g \in GenIds :
        (Scans(g) /\ Sentinels(g) = 1 /\ gens[g].pc = "done") =>
            \A i \in 1..Len(gens[g].selections.items) :
                gens[g].selections.items[i] = REMAINDER =>
                    InsertAt(gens[g].out, i, REMAINDER) = gens[g].selections.items

C7_Witness ==
    \E g \in GenIds :
        /\ Scans(g) /\ Sentinels(g) = 1 /\ gens[g].pc = "done"
        /\ gens[g].selections.items = <<"a", "b", REMAINDER>>

\* C8: the file is opened, read, parsed and closed before the first value is
\* emitted: the handle is never open once a value was yielded or while the
\* generator is not executing (paused, abandoned, finished or failed).
C8_HandleClosedBeforeYield ==
    \A g \in GenIds :
        /\ gens[g].fopen => (running = g /\ gens[g].out = <<>> /\ gens[g].pc \in {"load", "exit"})
        /\ running # g => ~gens[g].fopen
        /\ gens[g].out # <<>> => (~gens[g].fopen /\ gens[g].opens = 1 /\ gens[g].reads = 1)

C8_Witness ==
    \E g \in GenIds :
        /\ gens[g].pc = "closed" /\ gens[g].out # <<>>
        /\ gens[g].idx < Len(gens[g].selections.items)
        /\ ~gens[g].fopen

\* C9: nothing is cached across invocations: every invocation that is consumed
\* does one read of its own, of the file as it is at that moment, the program
\* never writes the file, and a duplicate-sentinel failure depends only on the
\* invocation's own list.
C9_State ==
    \A g \in GenIds :
        /\ gens[g].reads <= 1 /\ gens[g].opens <= 1
        /\ gens[g].pc \in {"navigate", "iter", "loop", "suspended", "done"} => gens[g].reads = 1
        /\ gens[g].err = "Exception" => (Scans(g) /\ Sentinels(g) >= 2)

C9_Step ==
    /\ fs' # fs => (extWrites' = extWrites + 1 /\ gens' = gens)
    /\ \A g \in GenIds :
          /\ gens'[g].reads # gens[g].reads =>
                /\ gens'[g].reads = gens[g].reads + 1
                /\ gens'[g].workflow = safe_load(fs[Resolve(gens[g].workflow_path, cwd)]).val
          /\ gens'[g].selections # gens[g].selections =>
                gens'[g].selections = Navigate(gens[g].workflow, 1).val
          /\ gens'[g] # gens[g] => \A h \in GenIds \ {g} : gens'[h] = gens[h]

C9_NothingCached == []C9_State /\ [][C9_Step]_vars

C9_Witness ==
    /\ extWrites = 1
    /\ \A g \in {1, 2} : gens[g].pc = "done" /\ Scans(g) /\ Sentinels(g) = 1
    /\ gens[1].out # gens[2].out

\* C10: calling get_test_selections() runs none of its body: no environment
\* lookup, no file access and no error before the first pull; file-not-found,
\* parse and missing-key failures surface on the first pull.
C10_LazyFromFirstStatement ==
    \A g \in GenIds :
        /\ gens[g].pulls = 0 =>
              /\ gens[g].lookups = 0 /\ gens[g].opens = 0 /\ gens[g].reads = 0
              /\ gens[g].err = "" /\ ~gens[g].fopen
              /\ gens[g].pc \in {"none", "created", "closed"}
        /\ gens[g].err \in {"FileNotFoundError", "YAMLError", "KeyError"} =>
              (gens[g].pulls = 1 /\ gens[g].out = <<>>)
        /\ gens[g].err # "" => gens[g].pulls >= 1

C10_Witness ==
    \E g \in GenIds :
        /\ gens[g].pc = "created" /\ gens[g].pulls = 0
        /\ ~fs[ModuleFile].exists /\ extWrites = 0

====
